---- MODULE Spec2Model ----
(***************************************************************************)
(* A model of run_simulation (src/backend/main.py): the trend forecast,   *)
(* the Monte-Carlo inventory depletion loop with its running aggregates,  *)
(* the stockout probability and the risk classification.                  *)
(*                                                                         *)
(* Numbers.  Python computes on floats; the model computes exactly.       *)
(* Inventory levels and demand draws live on an integer grid, a quotient  *)
(* (a mean, a probability) is the pair <<numerator, denominator>>, money- *)
(* like values that the code rounds are integers in the rounded unit, and *)
(* float("inf") / float("-inf") are the extended numbers PosInf / NegInf. *)
(* Rounding error of the floating-point sums is outside the model.        *)
(*                                                                         *)
(* The locals horizon and num_runs (and the literal 20 of the path limit) *)
(* are variables assigned by Init, so that the specification of the whole *)
(* loop can run them at small values while the specifications of the      *)
(* loop-free parts run them at the program's 12, 300 and 20.              *)
(***************************************************************************)
EXTENDS Integers, Sequences, FiniteSets, TLC

VARIABLES
    pc,                 \* position in run_simulation
    demand,             \* scenario.demand (int)
    scenario_type,      \* scenario.scenario_type (str)
    safety_stock,       \* line 58, on the level grid
    horizon,            \* line 63
    growth,             \* lines 64-66, in 1/10000
    forecast,           \* line 68, values in 1/100
    num_runs,           \* line 75
    path_limit,         \* the literal 20 of line 106
    inventory_paths,    \* line 76
    sum_levels,         \* line 77
    min_levels,         \* line 78, extended numbers
    max_levels,         \* line 79, extended numbers
    stockout_events,    \* line 80
    run,                \* loop variable of line 85
    t,                  \* loop variable of lines 70 and 88
    inv,                \* line 86
    path,               \* line 87
    demand_real,        \* line 89
    all_paths,          \* history: the path of every completed run, in run order
    avg_levels,         \* line 109, quotients
    stockout_probability, \* line 112, a quotient
    risk_level,         \* lines 115-120
    result              \* the returned dict, lines 122-135

vars == <<pc, demand, scenario_type, safety_stock, horizon, growth, forecast,
          num_runs, path_limit, inventory_paths, sum_levels, min_levels,
          max_levels, stockout_events, run, t, inv, path, demand_real,
          all_paths, avg_levels, stockout_probability, risk_level, result>>

-----------------------------------------------------------------------------
(* Program constants. *)

Horizon == 12
NumRuns == 300
PathLimit == 20

(* Bounds of the model. *)

\* num_runs, horizon and the path limit of the scaled simulation
SimRuns == 3
SimHorizon == 2
SimPathLimit == 2
\* the largest realized demand drawn (draws range over -1..MaxDraw)
MaxDraw == 2
\* scenario.demand ranges over 0..MaxDemand in the forecast specification
MaxDemand == 7

SimDemands == {0, 2}
SimSafetyStocks == {0, 1}
SimScenarioTypes == {"base"}
ScenarioTypes == {"optimistic", "Optimistic", "OPTIMISTIC", "base", "BASE",
                  "pessimistic", "Pessimistic", "PESSIMISTIC", "aggressive", ""}
GaussDraws == -1..MaxDraw

-----------------------------------------------------------------------------
(* Numbers *)

\* a quotient n / d (d > 0), as Python's true division gives it
Quot(n, d) == <<n, d>>
QLess(a, b) == a[1] * b[2] < b[1] * a[2]
QLeq(a, b) == a[1] * b[2] <= b[1] * a[2]

\* extended numbers: <<0, x>> is the finite x
Fin(x) == <<0, x>>
PosInf == <<1, 0>>
NegInf == <<-1, 0>>
IsFinite(a) == a[1] = 0
XLess(a, b) == \/ a[1] < b[1]
               \/ a[1] = 0 /\ b[1] = 0 /\ a[2] < b[2]

Max2(a, b) == IF a >= b THEN a ELSE b

\* [v] * n
Repeat(v, n) == [i \in 1..n |-> v]

\* the bound of the loop included: range(n) read as 0..n
InRangeInclusive(i, n) == i <= n

\* range(n), as the guard of a loop whose variable is i
InRange(i, n) == i < n

\* round(x, k) to the nearest multiple of unit, x an exact number of sub-units;
\* the set holds both neighbours when x is exactly half way (Python rounds the
\* float it holds, which lies on one side or the other)
RoundSet(n, d) ==
    LET q == n \div d
        r == n % d
    IN  IF 2 * r < d THEN {q}
        ELSE IF 2 * r > d THEN {q + 1}
        ELSE {q, q + 1}

-----------------------------------------------------------------------------
(* The forecast, lines 63-72 *)

\* the scenario type compared as given, without lower()
LowerMissing(s) == s

\* str.lower() on the scenario types of the model
Lower(s) ==
    CASE s \in {"optimistic", "Optimistic", "OPTIMISTIC"} -> "optimistic"
      [] s \in {"base", "BASE"} -> "base"
      [] s \in {"pessimistic", "Pessimistic", "PESSIMISTIC"} -> "pessimistic"
      [] OTHER -> s

\* lines 64-66, in 1/10000 per period
Growth(stype) ==
    LET g == IF Lower(stype) = "optimistic" THEN 200 ELSE 0
    IN  IF Lower(stype) = "pessimistic" THEN -200 ELSE g

\* line 71: current * (1 + growth * t), in 1/10000
ForecastValue(current, g, period) == current * (10000 + g * period)

\* line 72: round(value, 2), from 1/10000 to 1/100
Round2(value) == RoundSet(value, 100)

-----------------------------------------------------------------------------
(* The simulation step, lines 88-103 *)

\* the draw used as drawn, without the floor at 0
FloorDemandMissing(g) == g

\* lines 89-92: max(0.0, random.gauss(...))
FloorDemand(g) == IF g > 0 THEN g ELSE 0

\* the test of line 94 as a strict one: inv < 0
IsStockoutStrict(level) == level < 0

\* line 94
IsStockout(level) == level <= 0

\* lines 94-95
CountStockout(events, level) == IF IsStockout(level) THEN events + 1 ELSE events

\* the level kept as computed, without line 96
ClampLevelMissing(level) == level

\* lines 94, 96
ClampLevel(level) == IF IsStockout(level) THEN 0 ELSE level

\* lines 100-101
MinUpdate(m, x) == IF XLess(Fin(x), m) THEN Fin(x) ELSE m

\* the maximum overwritten by every level, without the test of line 102
MaxUpdateLast(m, x) == Fin(x)

\* lines 102-103
MaxUpdate(m, x) == IF XLess(m, Fin(x)) THEN Fin(x) ELSE m

\* the test of line 106 off by one: run <= 20
RetainPathOneMore(paths, r, p, limit) ==
    IF r <= limit THEN Append(paths, p) ELSE paths

\* lines 106-107
RetainPath(paths, r, p, limit) == IF r < limit THEN Append(paths, p) ELSE paths

-----------------------------------------------------------------------------
(* The aggregation and the risk level, lines 109-120 and 133 *)

\* the sums divided by the number of periods instead of the number of runs
AvgLevelsByPeriods(sums, n) == [i \in DOMAIN sums |-> Quot(sums[i], Len(sums))]

\* line 109
AvgLevels(sums, n) == [i \in DOMAIN sums |-> Quot(sums[i], n)]

\* the events divided by the number of runs alone
StockoutProbabilityPerRun(events, runs, periods) == Quot(events, Max2(runs, 1))

\* lines 81, 112
StockoutProbability(events, runs, periods) == Quot(events, Max2(runs * periods, 1))

\* lines 115-120
RiskLevel(p) ==
    IF QLess(p, Quot(1, 10)) THEN "low"
    ELSE IF QLess(p, Quot(3, 10)) THEN "medium"
    ELSE "high"

\* line 133: round(stockout_probability, 3), in 1/1000
Round3(p) == RoundSet(1000 * p[1], p[2])

-----------------------------------------------------------------------------
(* States *)

\* the locals of lines 75-112 before their assignment
SimUnassigned ==
    /\ inventory_paths = <<>>
    /\ sum_levels = <<>>
    /\ min_levels = <<>>
    /\ max_levels = <<>>
    /\ stockout_events = 0
    /\ run = 0
    /\ inv = 0
    /\ path = <<>>
    /\ demand_real = 0
    /\ all_paths = <<>>
    /\ avg_levels = <<>>
    /\ stockout_probability = Quot(0, 1)
    /\ risk_level = "unset"
    /\ result = <<>>

\* the state on entry to the forecast loop (line 70)
Entry(d, st, ss, h, n, lim) ==
    /\ pc = "forecast"
    /\ demand = d
    /\ scenario_type = st
    /\ safety_stock = ss
    /\ horizon = h
    /\ num_runs = n
    /\ path_limit = lim
    /\ growth = Growth(st)
    /\ forecast = <<>>
    /\ t = 0
    /\ SimUnassigned

Init ==
    \E d \in SimDemands, ss \in SimSafetyStocks, st \in SimScenarioTypes :
        Entry(d, st, ss, SimHorizon, SimRuns, SimPathLimit)

-----------------------------------------------------------------------------
(* Actions *)

\* lines 70-72, one iteration
ForecastStep ==
    /\ pc = "forecast"
    /\ InRange(t, horizon)
    /\ \E v \in Round2(ForecastValue(demand, growth, t)) :
           forecast' = Append(forecast, v)
    /\ t' = t + 1
    /\ UNCHANGED <<pc, demand, scenario_type, safety_stock, horizon, growth,
                   num_runs, path_limit, inventory_paths, sum_levels,
                   min_levels, max_levels, stockout_events, run, inv, path,
                   demand_real, all_paths, avg_levels, stockout_probability,
                   risk_level, result>>

\* lines 75-83 and the first test of the loop of line 85
SimInit ==
    /\ pc = "forecast"
    /\ ~InRange(t, horizon)
    /\ inventory_paths' = <<>>
    /\ sum_levels' = Repeat(0, horizon)
    /\ min_levels' = Repeat(PosInf, horizon)
    /\ max_levels' = Repeat(NegInf, horizon)
    /\ stockout_events' = 0
    /\ run' = 0
    /\ pc' = "run"
    /\ UNCHANGED <<demand, scenario_type, safety_stock, horizon, growth,
                   forecast, num_runs, path_limit, t, inv, path, demand_real,
                   all_paths, avg_levels, stockout_probability, risk_level,
                   result>>

\* line 83
StartingInventory == demand + safety_stock

\* lines 85-87
RunStart ==
    /\ pc = "run"
    /\ InRange(run, num_runs)
    /\ inv' = StartingInventory
    /\ path' = <<>>
    /\ t' = 0
    /\ pc' = "period"
    /\ UNCHANGED <<demand, scenario_type, safety_stock, horizon, growth,
                   forecast, num_runs, path_limit, inventory_paths, sum_levels,
                   min_levels, max_levels, stockout_events, run, demand_real,
                   all_paths, avg_levels, stockout_probability, risk_level,
                   result>>

\* lines 88-103, one iteration
PeriodStep ==
    /\ pc = "period"
    /\ InRange(t, horizon)
    /\ \E g \in GaussDraws :
         LET dr == FloorDemand(g)
             after == inv - dr
             level == ClampLevel(after)
         IN  /\ demand_real' = dr
             /\ stockout_events' = CountStockout(stockout_events, after)
             /\ inv' = level
             /\ path' = Append(path, level)
             /\ sum_levels' = [sum_levels EXCEPT ![t + 1] = @ + level]
             /\ min_levels' = [min_levels EXCEPT ![t + 1] = MinUpdate(@, level)]
             /\ max_levels' = [max_levels EXCEPT ![t + 1] = MaxUpdate(@, level)]
    /\ t' = t + 1
    /\ UNCHANGED <<pc, demand, scenario_type, safety_stock, horizon, growth,
                   forecast, num_runs, path_limit, inventory_paths, run,
                   all_paths, avg_levels, stockout_probability, risk_level,
                   result>>

\* lines 105-107 and the step of the loop of line 85
RunEnd ==
    /\ pc = "period"
    /\ ~InRange(t, horizon)
    /\ inventory_paths' = RetainPath(inventory_paths, run, path, path_limit)
    /\ all_paths' = Append(all_paths, path)
    /\ run' = run + 1
    /\ pc' = "run"
    /\ UNCHANGED <<demand, scenario_type, safety_stock, horizon, growth,
                   forecast, num_runs, path_limit, sum_levels, min_levels,
                   max_levels, stockout_events, t, inv, path, demand_real,
                   avg_levels, stockout_probability, risk_level, result>>

\* lines 109-112
Aggregate ==
    /\ pc = "run"
    /\ ~InRange(run, num_runs)
    /\ avg_levels' = AvgLevels(sum_levels, num_runs)
    /\ stockout_probability' = StockoutProbability(stockout_events, num_runs, horizon)
    /\ pc' = "classify"
    /\ UNCHANGED <<demand, scenario_type, safety_stock, horizon, growth,
                   forecast, num_runs, path_limit, inventory_paths, sum_levels,
                   min_levels, max_levels, stockout_events, run, t, inv, path,
                   demand_real, all_paths, risk_level, result>>

\* lines 115-120
Classify ==
    /\ pc = "classify"
    /\ risk_level' = RiskLevel(stockout_probability)
    /\ pc' = "return"
    /\ UNCHANGED <<demand, scenario_type, safety_stock, horizon, growth,
                   forecast, num_runs, path_limit, inventory_paths, sum_levels,
                   min_levels, max_levels, stockout_events, run, t, inv, path,
                   demand_real, all_paths, avg_levels, stockout_probability,
                   result>>

\* lines 122-135 (the fields the simulation decides)
Return ==
    /\ pc = "return"
    /\ \E p \in Round3(stockout_probability) :
         result' = [forecast |-> forecast,
                    inventory_avg |-> avg_levels,
                    inventory_lower |-> min_levels,
                    inventory_upper |-> max_levels,
                    stockout_probability |-> p,
                    risk_level |-> risk_level]
    /\ pc' = "done"
    /\ UNCHANGED <<demand, scenario_type, safety_stock, horizon, growth,
                   forecast, num_runs, path_limit, inventory_paths, sum_levels,
                   min_levels, max_levels, stockout_events, run, t, inv, path,
                   demand_real, all_paths, avg_levels, stockout_probability,
                   risk_level>>

Next ==
    \/ ForecastStep
    \/ SimInit
    \/ RunStart
    \/ PeriodStep
    \/ RunEnd
    \/ Aggregate
    \/ Classify
    \/ Return

Spec == Init /\ [][Next]_vars

-----------------------------------------------------------------------------
(* The forecast alone, at the program's horizon: lines 63-72 for every    *)
(* demand in 0..MaxDemand and every scenario type of the model.           *)

InitForecast ==
    \E d \in 0..MaxDemand, st \in ScenarioTypes :
        Entry(d, st, 0, Horizon, NumRuns, PathLimit)

NextForecast == ForecastStep

SpecForecast == InitForecast /\ [][NextForecast]_vars

-----------------------------------------------------------------------------
(* The merge of one finished run into the aggregates: the accumulation of  *)
(* lines 94-103 applied to a whole path (a recorded level is 0 exactly     *)
(* when its period counted a stockout).                                    *)

RECURSIVE CountPath(_, _, _)
CountPath(events, p, i) ==
    IF i > Len(p) THEN events
    ELSE CountPath(CountStockout(events, p[i]), p, i + 1)

NoRuns(h) ==
    [sum |-> Repeat(0, h), min |-> Repeat(PosInf, h),
     max |-> Repeat(NegInf, h), events |-> 0]

MergeRun(agg, p) ==
    [sum |-> [i \in DOMAIN agg.sum |-> agg.sum[i] + p[i]],
     min |-> [i \in DOMAIN agg.min |-> MinUpdate(agg.min[i], p[i])],
     max |-> [i \in DOMAIN agg.max |-> MaxUpdate(agg.max[i], p[i])],
     events |-> CountPath(agg.events, p, 1)]

\* the runs of paths merged in the order order[1], order[2], ...
RECURSIVE MergeRuns(_, _, _, _)
MergeRuns(agg, paths, order, i) ==
    IF i > Len(paths) THEN agg
    ELSE MergeRuns(MergeRun(agg, paths[order[i]]), paths, order, i + 1)

-----------------------------------------------------------------------------
(* The whole of run_simulation for one scenario (demand 2, safety stock 0), *)
(* the specification under which the runs are merged in every order.        *)

InitMerge == Entry(2, "base", 0, SimHorizon, SimRuns, SimPathLimit)

SpecMerge == InitMerge /\ [][Next]_vars

-----------------------------------------------------------------------------
(* The end of run_simulation alone, at the program's 300 runs of 12       *)
(* periods: lines 109-135 from the exit of the loop of line 85, for every *)
(* stockout count 0..3600.  LoopExit(k) is a state the loop reaches: with *)
(* starting inventory 3, k \div 12 runs are depleted in their first       *)
(* period, one more run is depleted for its last k % 12 periods, and the  *)
(* other runs draw no demand at all.                                      *)

ExitPath(i, k, h, s) ==
    LET q == k \div h
        r == k % h
    IN  [j \in 1..h |->
            IF i <= q THEN 0
            ELSE IF i = q + 1 /\ j > h - r THEN 0
            ELSE s]

\* the runs depleted at period j of the loop exit with k stockouts
ExitDepleted(j, k, h) ==
    (k \div h) + (IF j > h - (k % h) THEN 1 ELSE 0)

LoopExit(k) ==
    LET d == 2
        ss == 1
        h == Horizon
        n == NumRuns
        paths == [i \in 1..n |-> ExitPath(i, k, h, d + ss)]
    IN  /\ pc = "run"
        /\ demand = d
        /\ scenario_type = "base"
        /\ safety_stock = ss
        /\ horizon = h
        /\ num_runs = n
        /\ path_limit = PathLimit
        /\ growth = Growth("base")
        /\ forecast = [i \in 1..h |->
                         CHOOSE v \in Round2(ForecastValue(d, Growth("base"), i - 1)) : TRUE]
        /\ t = h
        /\ inventory_paths = SubSeq(paths, 1, PathLimit)
        /\ sum_levels = [j \in 1..h |-> (d + ss) * (n - ExitDepleted(j, k, h))]
        /\ min_levels = [j \in 1..h |->
                           IF ExitDepleted(j, k, h) > 0 THEN Fin(0) ELSE Fin(d + ss)]
        /\ max_levels = [j \in 1..h |->
                           IF ExitDepleted(j, k, h) < n THEN Fin(d + ss) ELSE Fin(0)]
        /\ stockout_events = k
        /\ run = n
        /\ inv = paths[n][h]
        /\ path = paths[n]
        /\ demand_real = paths[n][h - 1] - paths[n][h]
        /\ all_paths = paths
        /\ avg_levels = <<>>
        /\ stockout_probability = Quot(0, 1)
        /\ risk_level = "unset"
        /\ result = <<>>

InitRisk == \E k \in 0..(NumRuns * Horizon) : LoopExit(k)

NextRisk ==
    \/ Aggregate
    \/ Classify
    \/ Return

SpecRisk == InitRisk /\ [][NextRisk]_vars

-----------------------------------------------------------------------------
(* Properties *)

\* the cells (run x period) simulated so far
CellsDone ==
    CASE pc = "forecast" -> 0
      [] pc = "period" -> run * horizon + t
      [] OTHER -> run * horizon

\* the levels recorded so far, run by run (the run in progress last)
Recorded == IF pc = "period" THEN Append(all_paths, path) ELSE all_paths

RECURSIVE ZeroCells(_, _)
ZeroCells(paths, i) ==
    IF i > Len(paths) THEN 0
    ELSE Cardinality({j \in DOMAIN paths[i] : paths[i][j] = 0}) + ZeroCells(paths, i + 1)

RECURSIVE SumAt(_, _, _)
SumAt(paths, j, i) ==
    IF i > Len(paths) THEN 0
    ELSE (IF j \in DOMAIN paths[i] THEN paths[i][j] ELSE 0) + SumAt(paths, j, i + 1)

C3_LevelsNonNegative ==
    /\ inv >= 0
    /\ \A j \in DOMAIN path : path[j] >= 0
    /\ \A i \in DOMAIN all_paths : \A j \in DOMAIN all_paths[i] : all_paths[i][j] >= 0
    /\ \A i \in DOMAIN inventory_paths :
          \A j \in DOMAIN inventory_paths[i] : inventory_paths[i][j] >= 0
    /\ \A j \in DOMAIN sum_levels : sum_levels[j] >= 0
    /\ \A j \in DOMAIN min_levels : IsFinite(min_levels[j]) => min_levels[j][2] >= 0
    /\ \A j \in DOMAIN max_levels : IsFinite(max_levels[j]) => max_levels[j][2] >= 0

\* a period whose demand exceeded the inventory left, recorded as level 0
C3_Witness ==
    /\ pc = "period"
    /\ path # <<>>
    /\ path[Len(path)] = 0
    /\ demand_real > (IF Len(path) = 1 THEN StartingInventory ELSE path[Len(path) - 1])

\* C4: a period records a stockout event exactly when the inventory less the
\* realized demand is <= 0, one event and the level 0; otherwise no event and
\* the positive remainder; so stockout_events is the number of recorded levels
\* that are 0.
C4_StockoutPerCell ==
    /\ [](stockout_events = ZeroCells(Recorded, 1))
    /\ [][(pc = "period" /\ pc' = "period") =>
            LET after == inv - demand_real'
            IN  IF after <= 0
                THEN /\ stockout_events' = stockout_events + 1
                     /\ inv' = 0
                     /\ path' = Append(path, 0)
                ELSE /\ stockout_events' = stockout_events
                     /\ inv' = after
                     /\ path' = Append(path, after)]_vars

\* a period whose demand took exactly the inventory left: level 0, one event
C4_Witness ==
    /\ pc = "period"
    /\ path # <<>>
    /\ path[Len(path)] = 0
    /\ demand_real > 0
    /\ demand_real = (IF Len(path) = 1 THEN StartingInventory ELSE path[Len(path) - 1])
    /\ stockout_events >= 1

\* C5: stockout_probability is stockout_events / (num_runs * horizon); at most
\* one event is counted per cell, so the count never exceeds the cells
\* simulated, and the probability (also as returned) lies in [0, 1].
C5_ProbabilityInUnit ==
    /\ stockout_events >= 0
    /\ stockout_events <= CellsDone
    /\ CellsDone <= num_runs * horizon
    /\ pc \in {"classify", "return", "done"} =>
          /\ stockout_probability = Quot(stockout_events, num_runs * horizon)
          /\ QLeq(Quot(0, 1), stockout_probability)
          /\ QLeq(stockout_probability, Quot(1, 1))
    /\ pc = "done" => result.stockout_probability \in 0..1000

\* a result in which every cell was a stockout: the probability is 1
C5_Witness ==
    /\ pc = "done"
    /\ stockout_events = num_runs * horizon
    /\ result.stockout_probability = 1000

\* C6: inventory_paths never holds more than the path limit (20); after k
\* completed runs it is the full sequences of the first min(k, 20) runs, in run
\* order, whatever later runs do, while every run is in the sums.
C6_PathsRetained ==
    /\ Len(inventory_paths) <= path_limit
    /\ Len(inventory_paths) =
          (IF Len(all_paths) < path_limit THEN Len(all_paths) ELSE path_limit)
    /\ \A i \in 1..Len(inventory_paths) :
          /\ inventory_paths[i] = all_paths[i]
          /\ Len(inventory_paths[i]) = horizon
    /\ pc \in {"run", "period"} => Len(all_paths) = run
    /\ pc \notin {"forecast"} =>
          \A j \in 1..horizon : sum_levels[j] = SumAt(Recorded, j, 1)

\* more runs completed than paths retained, and the last run's path, which
\* differs from every retained one, is not among them
C6_Witness ==
    /\ pc = "done"
    /\ Len(all_paths) = num_runs
    /\ num_runs > path_limit
    /\ Len(inventory_paths) = path_limit
    /\ \A i \in 1..Len(inventory_paths) : inventory_paths[i] # all_paths[num_runs]

\* C7: forecast[t] = demand * (1 + growth * t) for t = 0..11, growth +0.02 for
\* "optimistic", -0.02 for "pessimistic" and 0 otherwise, the type matched in
\* any case; the finished forecast has 12 elements, all equal to demand for
\* "base", the last demand * 1.22 for "optimistic" and demand * 0.78 for
\* "pessimistic" (forecast values are in 1/100).
C7_ForecastTrend ==
    LET g == IF scenario_type \in {"optimistic", "Optimistic", "OPTIMISTIC"} THEN 2
             ELSE IF scenario_type \in {"pessimistic", "Pessimistic", "PESSIMISTIC"} THEN -2
             ELSE 0
    IN  /\ \A i \in 1..Len(forecast) : forecast[i] = demand * (100 + g * (i - 1))
        /\ (pc = "forecast" /\ t = horizon) =>
              /\ Len(forecast) = 12
              /\ g = 0 => \A i \in 1..12 : forecast[i] = demand * 100
              /\ g = 2 => forecast[12] = demand * 122
              /\ g = -2 => forecast[12] = demand * 78

\* a finished forecast of a scenario type written in capitals, with its trend
C7_Witness ==
    /\ pc = "forecast"
    /\ t = horizon
    /\ scenario_type = "PESSIMISTIC"
    /\ demand > 0
    /\ forecast[1] = demand * 100
    /\ forecast[12] = demand * 78

\* C8: forecast, inventory_avg, inventory_lower, inventory_upper and every
\* retained path have exactly horizon elements, and no entry of the lower or
\* upper band is left infinite.
C8_SequenceLengths ==
    /\ Len(forecast) <= horizon
    /\ pc # "forecast" =>
          /\ Len(forecast) = horizon
          /\ Len(sum_levels) = horizon
          /\ Len(min_levels) = horizon
          /\ Len(max_levels) = horizon
    /\ Len(path) <= horizon
    /\ \A i \in DOMAIN inventory_paths : Len(inventory_paths[i]) = horizon
    /\ pc = "done" =>
          /\ Len(result.forecast) = horizon
          /\ Len(result.inventory_avg) = horizon
          /\ Len(result.inventory_lower) = horizon
          /\ Len(result.inventory_upper) = horizon
          /\ \A i \in 1..horizon :
                /\ IsFinite(result.inventory_lower[i])
                /\ IsFinite(result.inventory_upper[i])

\* a result with its sequences filled and the retained paths at their limit
C8_Witness ==
    /\ pc = "done"
    /\ horizon > 1
    /\ Len(result.forecast) = horizon
    /\ Len(result.inventory_avg) = horizon
    /\ Len(inventory_paths) = path_limit
    /\ result.inventory_lower[horizon] # result.inventory_upper[horizon]

C10_DepletionMonotone ==
    [][/\ (pc = "run" /\ pc' = "period") =>
              /\ inv' = demand + safety_stock
              /\ path' = <<>>
       /\ (pc = "period" /\ pc' = "period") =>
              /\ inv' <= inv
              /\ path' = Append(path, inv')
              /\ inv = 0 =>
                    /\ inv' = 0
                    /\ stockout_events' = stockout_events + 1]_vars

\* a period after a stockout with realized demand 0: level 0 again
C10_Witness ==
    /\ pc = "period"
    /\ Len(path) >= 2
    /\ path[Len(path) - 1] = 0
    /\ path[Len(path)] = 0
    /\ demand_real = 0
    /\ stockout_events >= 2

\* C2: the returned risk_level is the one the thresholds give for the returned
\* stockout_probability (rounded to 3 decimals, here in 1/1000): "low" exactly
\* below 0.10, "medium" exactly from 0.10 and below 0.30, "high" otherwise.
C2_RiskMatchesReturned ==
    pc = "done" =>
        /\ result.risk_level = "low" <=> result.stockout_probability < 100
        /\ result.risk_level = "medium" <=>
              (result.stockout_probability >= 100 /\ result.stockout_probability < 300)
        /\ result.risk_level = "high" <=> result.stockout_probability >= 300

====
